---- MODULE Spec2Model ----
(***************************************************************************)
(* Model of src/app.py: the Excel structure parser service.                *)
(*                                                                         *)
(* Requests (POST /uploadExcel, POST /changeCurrentStructure and           *)
(* GET /getCurrentStructure) are handled by worker processes that share    *)
(* one MongoDB database.  A request is a record of the handler's local     *)
(* variables plus its position (pc); the                                   *)
(* database is the history collection, the structure collections and the   *)
(* clock that names new collections.  Every database call of a handler is  *)
(* one step, so that requests of different workers can interleave between  *)
(* two calls; the scan of the workbook is one step per row.                *)
(*                                                                         *)
(* Cells are the values pandas hands to the handler after fillna(""):      *)
(* a cell is a string (a sequence of characters) or a number.              *)
(***************************************************************************)
EXTENDS Integers, Sequences, FiniteSets, TLC

\* ------------------------------------------------------------------ bounds
MaxTotalRows == 2
MaxSheets == 2
MaxUploads == 2
MaxFaults == 1
NumProcs == 2

\* ------------------------------------------------------------------- cells
Str(s) == [isstr |-> TRUE, s |-> s]
Num(s) == [isstr |-> FALSE, s |-> s]
\* what df.fillna("", inplace=True) leaves in an empty cell
Blank == Str(<<>>)

\* ---------------------------------------------------- python str operations
\* sub occurs in s at position i
HasAt(s, sub, i) ==
    /\ i >= 1
    /\ i + Len(sub) - 1 <= Len(s)
    /\ SubSeq(s, i, i + Len(sub) - 1) = sub

\* sub in s
Contains(s, sub) == \E i \in 1..(Len(s) + 1) : HasAt(s, sub, i)

\* s.split(c)[0]: the text before the first c, all of s when c does not occur
SplitFirst(s, c) ==
    IF \E i \in 1..Len(s) : s[i] = c
    THEN LET k == CHOOSE i \in 1..Len(s) : s[i] = c /\ \A m \in 1..(i - 1) : s[m] # c
         IN  SubSeq(s, 1, k - 1)
    ELSE s

\* s.replace(sub, ""): every occurrence, left to right, non-overlapping
RECURSIVE Remove(_, _)
Remove(s, sub) ==
    IF s = <<>> THEN <<>>
    ELSE IF HasAt(s, sub, 1)
         THEN Remove(SubSeq(s, Len(sub) + 1, Len(s)), sub)
         ELSE <<Head(s)>> \o Remove(Tail(s), sub)

Digits == {"0", "1", "2", "3", "4", "5", "6", "7", "8", "9"}

DigitValue(c) ==
    CASE c = "0" -> 0 [] c = "1" -> 1 [] c = "2" -> 2 [] c = "3" -> 3
      [] c = "4" -> 4 [] c = "5" -> 5 [] c = "6" -> 6 [] c = "7" -> 7
      [] c = "8" -> 8 [] c = "9" -> 9

\* s.strip() for the blank character
RECURSIVE StripLeft(_)
StripLeft(s) == IF s # <<>> /\ Head(s) = " " THEN StripLeft(Tail(s)) ELSE s

RECURSIVE StripRight(_)
StripRight(s) ==
    IF s # <<>> /\ s[Len(s)] = " " THEN StripRight(SubSeq(s, 1, Len(s) - 1)) ELSE s

Strip(s) == StripRight(StripLeft(s))

\* the literal without its sign
Unsigned(s) == IF s # <<>> /\ Head(s) \in {"+", "-"} THEN Tail(s) ELSE s

\* digits, single underscores allowed between two digits
DigitBody(b) ==
    /\ b # <<>>
    /\ \A i \in 1..Len(b) : b[i] \in Digits \cup {"_"}
    /\ b[1] \in Digits
    /\ b[Len(b)] \in Digits
    /\ \A i \in 1..(Len(b) - 1) : ~(b[i] = "_" /\ b[i + 1] = "_")

\* int(s) does not raise ValueError
IsIntLiteral(s) == DigitBody(Unsigned(Strip(s)))

RECURSIVE DigitsValue(_)
DigitsValue(b) ==
    IF b = <<>> THEN 0
    ELSE IF b[Len(b)] = "_" THEN DigitsValue(SubSeq(b, 1, Len(b) - 1))
         ELSE 10 * DigitsValue(SubSeq(b, 1, Len(b) - 1)) + DigitValue(b[Len(b)])

\* int(s), for s with IsIntLiteral(s)
IntValue(s) ==
    LET t == Strip(s)
    IN  IF t # <<>> /\ Head(t) = "-" THEN 0 - DigitsValue(Unsigned(t))
        ELSE DigitsValue(Unsigned(t))

\* ----------------------------------------------------------------- columns
required_cols ==
    <<"Field Name", "Type", "Variable Name", "Count", "Gain",
      "Offset", "Min", "Max", "Concept", "Unit">>

RequiredColSet == {required_cols[i] : i \in 1..Len(required_cols)}

\* a row is the tuple of its cells in the order of required_cols
field_name_col(row) == row[1]
type_col(row) == row[2]
variable_name_col(row) == row[3]
count_col(row) == row[4]
gain_col(row) == row[5]
offset_col(row) == row[6]
min_col(row) == row[7]
max_col(row) == row[8]
concept_col(row) == row[9]
unit_col(row) == row[10]

\* the header label of the variable-name column
_variable_name == Str(<<"V", "a", "r", "i", "a", "b", "l", "e", " ", "N", "a", "m", "e">>)
_field_name == Str(<<"F", "i", "e", "l", "d", " ", "N", "a", "m", "e">>)

SIDText == <<"S", "I", "D">>
DefaultSIDFullName == <<"S", "I", "D", "1">>
MetadataKey == Str(<<"m", "e", "t", "a", "d", "a", "t", "a">>)

\* ------------------------------------------------------------------ inputs
cA == Str(<<"A">>)
cx == Str(<<"x">>)
cy == Str(<<"y">>)
cSID1 == Str(<<"S", "I", "D", "1">>)
cSID2t == Str(<<"S", "I", "D", "2", ":", "t">>)
cSIDx == Str(<<"S", "I", "D", "x">>)
c7 == Num(<<"7">>)
cU8 == Str(<<"u", "8">>)

\* a row with only the field-name and the variable-name cell filled
Row(f, v) == <<f, Blank, v, Blank, Blank, Blank, Blank, Blank, Blank, Blank>>
\* a row with every cell filled
FullRow(f, v) ==
    <<f, cU8, v, Num(<<"2">>), Num(<<"3">>), Num(<<"4">>),
      Num(<<"5">>), Num(<<"6">>), Str(<<"c">>), Str(<<"m">>)>>

RowKinds ==
    { FullRow(cA, cx),                    \* a field row with every cell filled
      Row(Blank, cy),                     \* a field row with a blank field name
      Row(cSID1, cx),                     \* a marker row that is a field row
      Row(cSID2t, Blank),                 \* a marker row with no variable name
      Row(cSIDx, Blank),                  \* a marker row whose id is no integer
      Row(_field_name, _variable_name),   \* a repeated header row
      Row(c7, cy),                        \* a numeric field-name cell
      Row(cA, MetadataKey) }              \* a field row of the variable "metadata"

\* a sheet with every required column (and one more) and the rows r
Sheet(r) == [columns |-> RequiredColSet \cup {"Notes"}, rows |-> r]

\* the sheets with n rows
SheetsOf(n) == { Sheet(r) : r \in [1..n -> RowKinds] }

\* a sheet that lacks a required column (its rows are never read)
LackingSheet == [columns |-> RequiredColSet \ {"Gain"}, rows |-> <<>>]

\* the sequences of k sheets with at most budget rows in all
RECURSIVE SheetSeqs(_, _)
SheetSeqs(k, budget) ==
    IF k = 0 THEN { <<>> }
    ELSE UNION { LET rest == SheetSeqs(k - 1, budget - n)
                 IN  { <<s>> \o w : s \in SheetsOf(n), w \in rest }
                 : n \in 0..budget }

\* the workbooks of k sheets: every sheet complete, or the last one lacking
\* a column (the sheets after a lacking one are never read)
WorkbooksOf(k) ==
    SheetSeqs(k, MaxTotalRows)
        \cup { Append(w, LackingSheet) : w \in SheetSeqs(k - 1, MaxTotalRows) }

\* an .xlsx workbook holds at least one sheet
Workbooks == UNION { WorkbooksOf(k) : k \in 1..MaxSheets }

UploadWorkbooks ==
    { << Sheet(<<Row(cSID1, cx), Row(Blank, cy)>>) >>,
      << Sheet(<<FullRow(cA, cx)>>), Sheet(<<Row(cSID2t, Blank), Row(c7, cy)>>) >>,
      << Sheet(<<Row(cSIDx, Blank), Row(Blank, cy)>>) >>,
      << Sheet(<<FullRow(cA, cx), Row(cSIDx, Blank)>>) >>,
      << Sheet(<<FullRow(cA, cx)>>), LackingSheet >>,
      << [columns |-> RequiredColSet \ {"Field Name", "Unit"}, rows |-> <<>>] >> }

PlainWorkbooks == { << Sheet(<<FullRow(cA, cx)>>) >> }

\* the uploaded files: the filename check and the workbook read from the file
Files(W) ==
    { [xlsx |-> TRUE, wb |-> w] : w \in W }
        \cup { [xlsx |-> FALSE, wb |-> << Sheet(<<>>) >>] }

\* the structureId texts: the hex text of an ObjectId, or a text that is none
StructureIds ==
    { [wellformed |-> TRUE, oid |-> i] : i \in 1..(MaxUploads + 1) }
        \cup { [wellformed |-> FALSE, oid |-> 0] }

\* sheets_names_list: the sheet names in workbook order
sheets_names_list(wb) == [i \in 1..Len(wb) |-> <<"Sheet", i>>]

\* ------------------------------------------------------------ document ids
\* the key under which the store keeps the id of a document
IdKey == Str(<<"_", "i", "d">>)

\* the ObjectId of the i-th document of the collection name
DocId(name, i) == [objectid |-> <<name, i>>]

IsObjectId(v) == DOMAIN v = {"objectid"}

HexDigits == <<"0", "1", "2", "3", "4", "5", "6", "7", "8", "9",
               "a", "b", "c", "d", "e", "f">>

\* str(ObjectId): the hex text of the id
HexText(o) == Str(<<HexDigits[o.objectid[1] + 1], HexDigits[o.objectid[2] + 1]>>)

\* lines 225-236: ObjectId values become their text, lists and dicts are
\* converted element by element, every other value is returned as it is
\* (a stored group holds an ObjectId only under "_id", and no datetime)
bson_to_jsonable(data) ==
    [i \in 1..Len(data) |->
        [k \in DOMAIN data[i] |->
            IF IsObjectId(data[i][k]) THEN HexText(data[i][k]) ELSE data[i][k]]]

\* ------------------------------------------------------------------- state
\* The store belongs to the environment:
\*   - datetime.now() differs between any two reads, so collection names are
\*     unique (the clock is a counter, capped by MaxUploads);
\*   - a store write that raises has written nothing, except insert_many,
\*     which may have written a prefix of its documents; at most MaxFaults
\*     writes raise;
\*   - insert_one gives the entry an _id no other entry has, and insert_many
\*     gives every document that has none an _id no other document has
\*     (it writes the _id into the handler's own dict as well);
\*   - a store read does not raise, and find() returns the documents in
\*     insertion order.
\* The fields pre_history and pre_collections of a request record the store
\* as it was when the request started, the field prev of a read request
\* records the request the worker handled before it; no handler reads them.
VARIABLES
    history,       \* history_collection: entries in insertion order
    collections,   \* the structure collections: collection name -> documents
    clock,         \* datetime.datetime.now(), strictly increasing per read
    faults,        \* store writes that have failed so far
    uploaded,      \* some upload has returned the success message
    req            \* per worker: the request it handles, its locals and position

vars == <<history, collections, clock, faults, uploaded, req>>

Procs == 1..NumProcs

\* python dict: d[k] = v
Put(d, k, v) == [x \in (DOMAIN d) \cup {k} |-> IF x = k THEN v ELSE d[x]]

Idle ==
    [pc |-> "idle", kind |-> "none", wb |-> <<>>, si |-> 0, j |-> 0,
     SID |-> <<>>, is_first_SID |-> TRUE, SID_Full_Name |-> <<>>,
     last_valid_field_name |-> Blank, structure |-> <<>>,
     COLLECTION_NAME |-> 0, structure_id |-> [wellformed |-> FALSE, oid |-> 0],
     resp |-> "none", sent |-> 0, pre_history |-> <<>>, pre_collections |-> <<>>,
     dataCollection |-> 0, body |-> <<>>,
     prev |-> [kind |-> "none", resp |-> "none", wb |-> <<>>]]

Init ==
    /\ history = <<>>
    /\ collections = <<>>
    /\ clock = 0
    /\ faults = 0
    /\ uploaded = FALSE
    /\ req = [p \in Procs |-> Idle]

\* the request of p ends with response r
Respond(p, r) == [req EXCEPT ![p].pc = "done", ![p].resp = r]

\* uploads that have not yet taken their collection name from the clock
PendingNames ==
    Cardinality({ p \in Procs : req[p].pc \in {"sheet", "row", "insert_structure"} })

\* ------------------------------------------------- POST /uploadExcel: parse
\* lines 50-64: the filename check, the read of the workbook, structure = []
StartUpload(p, W) ==
    /\ req[p].pc \in {"idle", "done"}
    /\ clock + PendingNames < MaxUploads
    /\ \E f \in Files(W) :
          req' = [req EXCEPT ![p] =
                    IF ~f.xlsx
                    THEN [Idle EXCEPT !.pc = "done", !.kind = "upload", !.resp = "400",
                                      !.pre_history = history,
                                      !.pre_collections = collections]
                    ELSE [Idle EXCEPT !.pc = "sheet", !.kind = "upload", !.wb = f.wb,
                                      !.si = 1,
                                      !.pre_history = history,
                                      !.pre_collections = collections]]
    /\ UNCHANGED <<history, collections, clock, faults, uploaded>>

\* BeginSheet with any(...) for all(...) in the column check of line 72
BeginSheetAnyColumn(p) ==
    LET r == req[p]
        df == r.wb[r.si]
    IN  /\ r.pc = "sheet"
        /\ req' = IF RequiredColSet \cap df.columns = {}
                  THEN Respond(p, "parse_error")
                  ELSE [req EXCEPT ![p].pc = "row", ![p].j = 0,
                                   ![p].SID = <<>>,
                                   ![p].is_first_SID = TRUE,
                                   ![p].SID_Full_Name = DefaultSIDFullName,
                                   ![p].last_valid_field_name = Blank]
        /\ UNCHANGED <<history, collections, clock, faults, uploaded>>

\* BeginSheet with last_valid_field_name set once, before the loop over the
\* sheets, and not at the start of every sheet
BeginSheetKeepsCarry(p) ==
    LET r == req[p]
        df == r.wb[r.si]
    IN  /\ r.pc = "sheet"
        /\ req' = IF ~(RequiredColSet \subseteq df.columns)
                  THEN Respond(p, "parse_error")
                  ELSE [req EXCEPT ![p].pc = "row", ![p].j = 0,
                                   ![p].SID = <<>>,
                                   ![p].is_first_SID = TRUE,
                                   ![p].SID_Full_Name = DefaultSIDFullName]
        /\ UNCHANGED <<history, collections, clock, faults, uploaded>>

\* lines 66-100: the required columns of the next sheet, the scanner's start
BeginSheet(p) ==
    LET r == req[p]
        df == r.wb[r.si]
    IN  /\ r.pc = "sheet"
        /\ req' = IF ~(RequiredColSet \subseteq df.columns)
                  THEN Respond(p, "parse_error")
                  ELSE [req EXCEPT ![p].pc = "row", ![p].j = 0,
                                   ![p].SID = <<>>,
                                   ![p].is_first_SID = TRUE,
                                   ![p].SID_Full_Name = DefaultSIDFullName,
                                   ![p].last_valid_field_name = Blank]
        /\ UNCHANGED <<history, collections, clock, faults, uploaded>>

\* line 103: the row's field-name cell is a string that contains "SID"
IsMarker(row) == field_name_col(row).isstr /\ Contains(field_name_col(row).s, SIDText)

\* line 110: the row is a field row
Qualifies(row) == variable_name_col(row) # _variable_name /\ variable_name_col(row) # Blank

\* line 111: SID_Full_Name.split(":")[0].replace("SID", "")
SIDNumberText(full_name) == Remove(SplitFirst(full_name, ":"), SIDText)

\* sid_info_obj with the defaults of gain and offset exchanged
sid_info_objSwappedDefaults(row, last_valid) ==
    [field_name |-> IF field_name_col(row) # Blank THEN field_name_col(row) ELSE last_valid,
     type |-> IF type_col(row) # Blank THEN type_col(row) ELSE Blank,
     variable_name |-> IF variable_name_col(row) # Blank THEN variable_name_col(row) ELSE Blank,
     count |-> IF count_col(row) # Blank THEN count_col(row) ELSE Blank,
     gain |-> IF gain_col(row) # Blank THEN gain_col(row) ELSE Num(<<"0">>),
     offset |-> IF offset_col(row) # Blank THEN offset_col(row) ELSE Num(<<"1">>),
     min |-> IF min_col(row) # Blank THEN min_col(row) ELSE Blank,
     max |-> IF max_col(row) # Blank THEN max_col(row) ELSE Blank,
     concept |-> IF concept_col(row) # Blank THEN concept_col(row) ELSE Blank,
     unit |-> IF unit_col(row) # Blank THEN unit_col(row) ELSE Blank]

\* lines 118-128: the field entry of a row
sid_info_obj(row, last_valid) ==
    [field_name |-> IF field_name_col(row) # Blank THEN field_name_col(row) ELSE last_valid,
     type |-> IF type_col(row) # Blank THEN type_col(row) ELSE Blank,
     variable_name |-> IF variable_name_col(row) # Blank THEN variable_name_col(row) ELSE Blank,
     count |-> IF count_col(row) # Blank THEN count_col(row) ELSE Blank,
     gain |-> IF gain_col(row) # Blank THEN gain_col(row) ELSE Num(<<"1">>),
     offset |-> IF offset_col(row) # Blank THEN offset_col(row) ELSE Num(<<"0">>),
     min |-> IF min_col(row) # Blank THEN min_col(row) ELSE Blank,
     max |-> IF max_col(row) # Blank THEN max_col(row) ELSE Blank,
     concept |-> IF concept_col(row) # Blank THEN concept_col(row) ELSE Blank,
     unit |-> IF unit_col(row) # Blank THEN unit_col(row) ELSE Blank]

\* AfterMarker with the marker cell taken as the carry-forward field name
AfterMarkerCarries(r, row) ==
    IF IsMarker(row)
    THEN [r EXCEPT !.SID_Full_Name = field_name_col(row).s,
                   !.structure = IF r.is_first_SID THEN @ ELSE Append(@, r.SID),
                   !.SID = IF r.is_first_SID THEN @ ELSE <<>>,
                   !.is_first_SID = FALSE,
                   !.last_valid_field_name = field_name_col(row)]
    ELSE r

\* lines 103-108: the scanner after the marker test of a row
AfterMarker(r, row) ==
    IF IsMarker(row)
    THEN [r EXCEPT !.SID_Full_Name = field_name_col(row).s,
                   !.structure = IF r.is_first_SID THEN @ ELSE Append(@, r.SID),
                   !.SID = IF r.is_first_SID THEN @ ELSE <<>>,
                   !.is_first_SID = FALSE]
    ELSE r

\* AfterField without the update of last_valid_field_name (lines 114-115)
AfterFieldNoCarry(r, row, sheet_name) ==
    LET metadata == [info |-> sheet_name, full_name |-> r.SID_Full_Name,
                     SID |-> r.SID_Full_Name,
                     SIDNumber |-> IntValue(SIDNumberText(r.SID_Full_Name))]
    IN  [r EXCEPT !.SID = Put(Put(@, MetadataKey, metadata),
                              variable_name_col(row),
                              sid_info_obj(row, r.last_valid_field_name))]

\* lines 113-130: the scanner after a field row
AfterField(r, row, sheet_name) ==
    LET metadata == [info |-> sheet_name, full_name |-> r.SID_Full_Name,
                     SID |-> r.SID_Full_Name,
                     SIDNumber |-> IntValue(SIDNumberText(r.SID_Full_Name))]
        last_valid == IF field_name_col(row) # Blank THEN field_name_col(row)
                      ELSE r.last_valid_field_name
    IN  [r EXCEPT !.last_valid_field_name = last_valid,
                  !.SID = Put(Put(@, MetadataKey, metadata),
                              variable_name_col(row), sid_info_obj(row, last_valid))]

\* ScanRow with a field row skipped, not raised, when its id is no integer
ScanRowSkipsBadId(p) ==
    LET r == req[p]
        rows == r.wb[r.si].rows
        row == rows[r.j + 1]
        m == AfterMarker(r, row)
    IN  /\ r.pc = "row"
        /\ r.j < Len(rows)
        /\ req' = IF ~Qualifies(row) \/ ~IsIntLiteral(SIDNumberText(m.SID_Full_Name))
                  THEN [req EXCEPT ![p] = [m EXCEPT !.j = r.j + 1]]
                  ELSE [req EXCEPT ![p] =
                           [AfterField(m, row, sheets_names_list(r.wb)[r.si])
                              EXCEPT !.j = r.j + 1]]
        /\ UNCHANGED <<history, collections, clock, faults, uploaded>>

\* lines 102-130: one row of the sheet
ScanRow(p) ==
    LET r == req[p]
        rows == r.wb[r.si].rows
        row == rows[r.j + 1]
        m == AfterMarker(r, row)
    IN  /\ r.pc = "row"
        /\ r.j < Len(rows)
        /\ req' = IF ~Qualifies(row)
                  THEN [req EXCEPT ![p] = [m EXCEPT !.j = r.j + 1]]
                  ELSE IF ~IsIntLiteral(SIDNumberText(m.SID_Full_Name))
                       THEN Respond(p, "parse_error")
                       ELSE [req EXCEPT ![p] =
                                [AfterField(m, row, sheets_names_list(r.wb)[r.si])
                                   EXCEPT !.j = r.j + 1]]
        /\ UNCHANGED <<history, collections, clock, faults, uploaded>>

\* EndSheet with an accumulator without entries left out of the structure
EndSheetSkipsEmpty(p) ==
    LET r == req[p]
    IN  /\ r.pc = "row"
        /\ r.j = Len(r.wb[r.si].rows)
        /\ req' = [req EXCEPT ![p].structure = IF r.SID = <<>> THEN @ ELSE Append(@, r.SID),
                              ![p].si = r.si + 1,
                              ![p].pc = IF r.si = Len(r.wb) THEN "insert_structure"
                                        ELSE "sheet"]
        /\ UNCHANGED <<history, collections, clock, faults, uploaded>>

\* line 132: the end of the sheet appends the accumulator
EndSheet(p) ==
    LET r == req[p]
    IN  /\ r.pc = "row"
        /\ r.j = Len(r.wb[r.si].rows)
        /\ req' = [req EXCEPT ![p].structure = Append(@, r.SID),
                              ![p].si = r.si + 1,
                              ![p].pc = IF r.si = Len(r.wb) THEN "insert_structure"
                                        ELSE "sheet"]
        /\ UNCHANGED <<history, collections, clock, faults, uploaded>>

\* ------------------------------------------------- POST /uploadExcel: store
\* the documents of a collection, none when it does not exist
Documents(name) == IF name \in DOMAIN collections THEN collections[name] ELSE <<>>

\* ClearAll with the update left out
ClearAllSkipped(h) == h

\* update_many({}, {"$set": {"is_current": False}})
ClearAll(h) == [i \in 1..Len(h) |-> [h[i] EXCEPT !.is_current = FALSE]]

\* SetCurrent with the filter {} for {"_id": oid}
SetCurrentEvery(h, oid) == [i \in 1..Len(h) |-> [h[i] EXCEPT !.is_current = TRUE]]

\* update_many({"_id": oid}, {"$set": {"is_current": True}})
SetCurrent(h, oid) ==
    [i \in 1..Len(h) |-> IF h[i]._id = oid THEN [h[i] EXCEPT !.is_current = TRUE] ELSE h[i]]

\* insert_one({"collection_name": name, "is_current": True}), with a fresh _id
InsertCurrent(h, name) ==
    Append(h, [_id |-> Len(h) + 1, collection_name |-> name, is_current |-> TRUE])

\* insert_many: the documents docs of the collection name, each with its _id
WithIds(name, docs) ==
    [i \in 1..Len(docs) |-> Put(docs[i], IdKey, DocId(name, Len(Documents(name)) + i))]

\* lines 138-141: the collection named by the clock receives the structure
InsertStructure(p) ==
    LET r == req[p]
        name == clock + 1
        stored == WithIds(name, r.structure)
    IN  /\ r.pc = "insert_structure"
        /\ clock' = clock + 1
        /\ collections' = Put(collections, name, Documents(name) \o stored)
        /\ req' = [req EXCEPT ![p].COLLECTION_NAME = name, ![p].structure = stored,
                              ![p].pc = "clear_history"]
        /\ UNCHANGED <<history, faults, uploaded>>

\* lines 142-143: insert_many raises, a prefix of the documents may be written
InsertStructureFails(p) ==
    LET r == req[p]
        name == clock + 1
        stored == WithIds(name, r.structure)
    IN  /\ r.pc = "insert_structure"
        /\ faults < MaxFaults
        /\ faults' = faults + 1
        /\ clock' = clock + 1
        /\ \E n \in 0..(Len(stored) - 1) :
              collections' = IF n = 0 THEN collections
                             ELSE Put(collections, name,
                                      Documents(name) \o SubSeq(stored, 1, n))
        /\ req' = [Respond(p, "structure_error") EXCEPT ![p].COLLECTION_NAME = name,
                                                        ![p].structure = stored]
        /\ UNCHANGED <<history, uploaded>>

\* ClearHistory with the entries left as they are
ClearHistoryKeepsFlags(p) ==
    /\ req[p].pc = "clear_history"
    /\ history' = history
    /\ req' = [req EXCEPT ![p].pc = "insert_history"]
    /\ UNCHANGED <<collections, clock, faults, uploaded>>

\* line 146: every entry loses is_current
ClearHistory(p) ==
    /\ req[p].pc = "clear_history"
    /\ history' = ClearAll(history)
    /\ req' = [req EXCEPT ![p].pc = "insert_history"]
    /\ UNCHANGED <<collections, clock, faults, uploaded>>

\* lines 151-152: update_many raises
ClearHistoryFails(p) ==
    /\ req[p].pc = "clear_history"
    /\ faults < MaxFaults
    /\ faults' = faults + 1
    /\ req' = Respond(p, "history_error")
    /\ UNCHANGED <<history, collections, clock, uploaded>>

\* lines 147-150: the entry of the new collection is inserted as current
InsertHistory(p) ==
    /\ req[p].pc = "insert_history"
    /\ history' = InsertCurrent(history, req[p].COLLECTION_NAME)
    /\ req' = [req EXCEPT ![p].pc = "notify"]
    /\ UNCHANGED <<collections, clock, faults, uploaded>>

\* InsertHistoryFails with the exception swallowed: the handler goes on
InsertHistoryFailsGoesOn(p) ==
    /\ req[p].pc = "insert_history"
    /\ faults < MaxFaults
    /\ faults' = faults + 1
    /\ req' = [req EXCEPT ![p].pc = "notify"]
    /\ UNCHANGED <<history, collections, clock, uploaded>>

\* lines 151-152: insert_one raises
InsertHistoryFails(p) ==
    /\ req[p].pc = "insert_history"
    /\ faults < MaxFaults
    /\ faults' = faults + 1
    /\ req' = Respond(p, "history_error")
    /\ UNCHANGED <<history, collections, clock, uploaded>>

\* lines 154-161: the parser server answers, the upload succeeds
Notify(p) ==
    /\ req[p].pc = "notify"
    /\ req' = [Respond(p, "ok") EXCEPT ![p].sent = @ + 1]
    /\ uploaded' = TRUE
    /\ UNCHANGED <<history, collections, clock, faults>>

\* NotifyFails with the store put back to what it was before the upload
NotifyFailsRollsBack(p) ==
    /\ req[p].pc = "notify"
    /\ req' = [Respond(p, "notify_error") EXCEPT ![p].sent = @ + 1]
    /\ history' = req[p].pre_history
    /\ collections' = req[p].pre_collections
    /\ UNCHANGED <<clock, faults, uploaded>>

\* lines 156-157: the notification raises (no connection, timeout, status >= 400)
NotifyFails(p) ==
    /\ req[p].pc = "notify"
    /\ req' = [Respond(p, "notify_error") EXCEPT ![p].sent = @ + 1]
    /\ UNCHANGED <<history, collections, clock, faults, uploaded>>

\* ------------------------------------------- POST /changeCurrentStructure
\* lines 210-213
StartChange(p) ==
    /\ req[p].pc \in {"idle", "done"}
    /\ \E id \in StructureIds :
          req' = [req EXCEPT ![p] =
                    [Idle EXCEPT !.pc = "change_clear", !.kind = "change",
                                 !.structure_id = id,
                                 !.pre_history = history,
                                 !.pre_collections = collections]]
    /\ UNCHANGED <<history, collections, clock, faults, uploaded>>

\* line 214: every entry loses is_current
ChangeClear(p) ==
    /\ req[p].pc = "change_clear"
    /\ history' = ClearAll(history)
    /\ req' = [req EXCEPT ![p].pc = "change_set"]
    /\ UNCHANGED <<collections, clock, faults, uploaded>>

\* lines 220-221: update_many of line 214 raises
ChangeClearFails(p) ==
    /\ req[p].pc = "change_clear"
    /\ faults < MaxFaults
    /\ faults' = faults + 1
    /\ req' = Respond(p, "change_error")
    /\ UNCHANGED <<history, collections, clock, uploaded>>

\* line 215: ObjectId(structure_id) raises InvalidId on a text that is no
\* ObjectId; otherwise the entries with that _id become current
ChangeSet(p) ==
    LET id == req[p].structure_id
    IN  /\ req[p].pc = "change_set"
        /\ history' = IF id.wellformed THEN SetCurrent(history, id.oid) ELSE history
        /\ req' = IF id.wellformed THEN [req EXCEPT ![p].pc = "change_notify"]
                  ELSE Respond(p, "change_error")
        /\ UNCHANGED <<collections, clock, faults, uploaded>>

\* lines 220-221: update_many of line 215 raises
ChangeSetFails(p) ==
    /\ req[p].pc = "change_set"
    /\ req[p].structure_id.wellformed
    /\ faults < MaxFaults
    /\ faults' = faults + 1
    /\ req' = Respond(p, "change_error")
    /\ UNCHANGED <<history, collections, clock, uploaded>>

\* lines 216-219: the parser server answers, the change succeeds
ChangeNotify(p) ==
    /\ req[p].pc = "change_notify"
    /\ req' = [Respond(p, "ok") EXCEPT ![p].sent = @ + 1]
    /\ UNCHANGED <<history, collections, clock, faults, uploaded>>

\* lines 220-221: the notification raises
ChangeNotifyFails(p) ==
    /\ req[p].pc = "change_notify"
    /\ req' = [Respond(p, "change_error") EXCEPT ![p].sent = @ + 1]
    /\ UNCHANGED <<history, collections, clock, faults, uploaded>>

\* ------------------------------------------------ GET /getCurrentStructure
\* line 164: the request arrives
StartGet(p) ==
    /\ req[p].pc \in {"idle", "done"}
    /\ req' = [req EXCEPT ![p] =
                 [Idle EXCEPT !.pc = "get_find", !.kind = "get",
                              !.pre_history = history,
                              !.pre_collections = collections,
                              !.prev = [kind |-> req[p].kind, resp |-> req[p].resp,
                                        wb |-> req[p].wb]]]
    /\ UNCHANGED <<history, collections, clock, faults, uploaded>>

\* GetFind with find({}) for find({"is_current": True}) in line 166
GetFindAnyEntry(p) ==
    /\ req[p].pc = "get_find"
    /\ req' = IF history = <<>> THEN Respond(p, "404")
              ELSE [req EXCEPT ![p].pc = "get_read",
                               ![p].dataCollection = history[1].collection_name]
    /\ UNCHANGED <<history, collections, clock, faults, uploaded>>

\* lines 166-171: the current entries; 404 when there is none, otherwise
\* the collection that the first of them names
GetFind(p) ==
    LET metadata == SelectSeq(history, LAMBDA e : e.is_current)
    IN  /\ req[p].pc = "get_find"
        /\ req' = IF metadata = <<>> THEN Respond(p, "404")
                  ELSE [req EXCEPT ![p].pc = "get_read",
                                   ![p].dataCollection = metadata[1].collection_name]
        /\ UNCHANGED <<history, collections, clock, faults, uploaded>>

\* lines 172-174: the documents of that collection, made JSON-safe
GetRead(p) ==
    /\ req[p].pc = "get_read"
    /\ req' = [Respond(p, "ok") EXCEPT
                 ![p].body = bson_to_jsonable(Documents(req[p].dataCollection))]
    /\ UNCHANGED <<history, collections, clock, faults, uploaded>>

\* ---------------------------------------------------------- specifications
\* the steps of an upload once it has started
UploadStep(p) ==
    \/ BeginSheet(p)
    \/ ScanRow(p)
    \/ EndSheet(p)
    \/ InsertStructure(p)
    \/ InsertStructureFails(p)
    \/ ClearHistory(p)
    \/ ClearHistoryFails(p)
    \/ InsertHistory(p)
    \/ InsertHistoryFails(p)
    \/ Notify(p)
    \/ NotifyFails(p)

\* the steps of a read of the current structure once it has started
GetStep(p) ==
    \/ GetFind(p)
    \/ GetRead(p)

\* the steps of a change of the current structure once it has started
ChangeStep(p) ==
    \/ ChangeClear(p)
    \/ ChangeClearFails(p)
    \/ ChangeSet(p)
    \/ ChangeSetFails(p)
    \/ ChangeNotify(p)
    \/ ChangeNotifyFails(p)

\* requests one after another: one worker, the next request starts when the
\* previous one has returned
Next ==
    \/ StartUpload(1, UploadWorkbooks)
    \/ StartChange(1)
    \/ StartGet(1)
    \/ UploadStep(1)
    \/ ChangeStep(1)
    \/ GetStep(1)

Spec == Init /\ [][Next]_vars

\* a first upload of a plain workbook and, once it has succeeded, an upload
\* of any workbook
ScanNext ==
    \/ (req[1].pc = "idle" /\ StartUpload(1, PlainWorkbooks))
    \/ (req[1].resp = "ok" /\ clock = 1 /\ StartUpload(1, Workbooks))
    \/ UploadStep(1)

ScanSpec == Init /\ [][ScanNext]_vars

\* requests of several workers, interleaved between their database calls
ConcNext ==
    \E p \in Procs :
        \/ StartUpload(p, PlainWorkbooks)
        \/ StartChange(p)
        \/ UploadStep(p)
        \/ ChangeStep(p)

ConcSpec == Init /\ [][ConcNext]_vars

\* uploads of one worker, one after another, and reads of another worker,
\* interleaved between their database calls
ReadNext ==
    \/ StartUpload(1, PlainWorkbooks)
    \/ UploadStep(1)
    \/ StartGet(2)
    \/ GetStep(2)

ReadSpec == Init /\ [][ReadNext]_vars

\* ------------------------------------------------------------------ claims
\* the positions of the history entries with is_current = true
Current == { i \in 1..Len(history) : history[i].is_current }

\* the request of p is an upload that has returned
UploadReturned(p) == req[p].pc = "done" /\ req[p].kind = "upload"

\* the request of p is a change of the current structure that has returned
ChangeReturned(p) == req[p].pc = "done" /\ req[p].kind = "change"

\* the structureId of p's request is the _id of a history entry
MatchesEntry(p) ==
    /\ req[p].structure_id.wellformed
    /\ \E i \in 1..Len(history) : history[i]._id = req[p].structure_id.oid

Maximum(S) == CHOOSE x \in S : \A y \in S : y <= x

\* C1: after an upload that ran alone and whose store writes all succeeded,
\* exactly one history entry is current, and it is the entry that this
\* upload inserted (the last entry, naming the upload's collection).
C1_LastUploadIsTheOnlyCurrent ==
    (UploadReturned(1) /\ req[1].resp \in {"ok", "notify_error"})
        => /\ Current = {Len(history)}
           /\ Len(history) >= 1
           /\ history[Len(history)].collection_name = req[1].COLLECTION_NAME

\* C1 witness: the second successful upload in a row has returned
C1_Witness ==
    /\ UploadReturned(1)
    /\ req[1].resp = "ok"
    /\ Len(history) >= 2
    /\ faults = 0

\* C2: once an upload has succeeded and no store write has failed, exactly
\* one history entry is current whenever a request has returned.
C2_ExactlyOneCurrentAfterEachRequest ==
    (uploaded /\ faults = 0 /\ req[1].pc = "done") => Cardinality(Current) = 1

\* C3: a changeCurrentStructure request whose structureId matches no history
\* entry does not return the success message.
C3_UnknownIdFails ==
    (ChangeReturned(1) /\ ~MatchesEntry(1)) => req[1].resp # "ok"

\* C4: when interleaved requests have all returned the success message, none
\* of them a change to an unknown id and no store write having failed,
\* exactly one history entry is current.
C4_ExactlyOneCurrentWhenAllReturned ==
    ( /\ faults = 0
      /\ history # <<>>
      /\ \A p \in Procs :
            \/ req[p].pc = "idle"
            \/ UploadReturned(p) /\ req[p].resp = "ok"
            \/ ChangeReturned(p) /\ req[p].resp = "ok" /\ MatchesEntry(p) )
        => Cardinality(Current) = 1

\* the marker rows of a sheet
Markers(rows) == { j \in 1..Len(rows) : IsMarker(rows[j]) }

\* the i-th marker row of a sheet
NthMarker(rows, i) ==
    CHOOSE j \in Markers(rows) : Cardinality({ m \in Markers(rows) : m < j }) = i - 1

\* the last row of the range of the i-th marker row
RangeEnd(rows, i) ==
    IF i = Cardinality(Markers(rows)) THEN Len(rows) ELSE NthMarker(rows, i + 1) - 1

\* the groups a sheet emits
GroupCount(rows) == IF Markers(rows) = {} THEN 1 ELSE Cardinality(Markers(rows))

\* the groups the sheets before sheet s emit
RECURSIVE GroupsBefore(_, _)
GroupsBefore(wb, s) ==
    IF s <= 1 THEN 0 ELSE GroupsBefore(wb, s - 1) + GroupCount(wb[s - 1].rows)

\* the parse of p's upload has ended without an error
Parsed(p) == req[p].kind = "upload" /\ req[p].pc = "insert_structure"

\* the field entries of a group: its keys but "metadata"
FieldKeys(group) == (DOMAIN group) \ {MetadataKey}

\* C5: in a sheet with marker rows, the i-th emitted group of the sheet holds
\* a field entry only for a field row between the i-th marker row and the
\* next marker row (or the end of the sheet).
C5_GroupHoldsOnlyItsRange ==
    Parsed(1) =>
        \A s \in 1..Len(req[1].wb) :
            LET rows == req[1].wb[s].rows
            IN  \A i \in 1..Cardinality(Markers(rows)) :
                    \A key \in FieldKeys(req[1].structure[GroupsBefore(req[1].wb, s) + i]) :
                        \E j \in NthMarker(rows, i)..RangeEnd(rows, i) :
                            Qualifies(rows[j]) /\ variable_name_col(rows[j]) = key

\* the scanner of p has just taken row j of its sheet as a field row with a
\* blank field-name cell
BlankFieldRowTaken(p) ==
    /\ req[p].pc = "row"
    /\ req[p].j >= 1
    /\ Qualifies(req[p].wb[req[p].si].rows[req[p].j])
    /\ field_name_col(req[p].wb[req[p].si].rows[req[p].j]) = Blank

\* the field_name of the entry the scanner of p has just written
TakenFieldName(p) ==
    req[p].SID[variable_name_col(req[p].wb[req[p].si].rows[req[p].j])].field_name

\* the rows before row j with a non-blank field-name cell
NonBlankBefore(rows, j) == { i \in 1..(j - 1) : field_name_col(rows[i]) # Blank }

\* the field rows before row j with a non-blank field-name cell
NonBlankFieldRowsBefore(rows, j) == { i \in NonBlankBefore(rows, j) : Qualifies(rows[i]) }

StoreUntouched(p) ==
    /\ history = req[p].pre_history
    /\ collections = req[p].pre_collections

\* the id part of a marker label is no integer
BadLabel(label) == ~IsIntLiteral(SIDNumberText(label))

\* some sheet of the workbook holds a marker row whose id part is no integer
HasBadMarker(wb) ==
    \E s \in 1..Len(wb) : \E j \in Markers(wb[s].rows) :
        BadLabel(field_name_col(wb[s].rows[j]).s)

\* the label in force at row j: that of the last marker row at or above it,
\* "SID1" when there is none
GoverningLabel(rows, j) ==
    LET above == { m \in Markers(rows) : m <= j }
    IN  IF above = {} THEN DefaultSIDFullName
        ELSE field_name_col(rows[Maximum(above)]).s

\* some field row of the workbook stands under a label whose id part is no
\* integer
HasBadGoverningLabel(wb) ==
    \E s \in 1..Len(wb) : \E j \in 1..Len(wb[s].rows) :
        Qualifies(wb[s].rows[j]) /\ BadLabel(GoverningLabel(wb[s].rows, j))

\* C7, as stated: an upload of a workbook that holds a marker label whose id
\* part is no integer fails with a parse error and leaves the structure
\* collections and the history as they were.
C7_BadMarkerFails ==
    (req[1].kind = "upload" /\ HasBadMarker(req[1].wb))
        => /\ StoreUntouched(1)
           /\ req[1].pc = "done" => req[1].resp = "parse_error"

\* C7, amended: an upload of a workbook in which a field row stands under a
\* marker label whose id part is no integer fails with a parse error and
\* leaves the structure collections and the history as they were.
C7_BadGoverningLabelFails ==
    (req[1].kind = "upload" /\ HasBadGoverningLabel(req[1].wb))
        => /\ StoreUntouched(1)
           /\ req[1].pc = "done" => req[1].resp = "parse_error"

\* C7 witness: the upload has failed on a bad label in the second sheet,
\* after a first sheet that emitted a group
C7_Witness ==
    /\ UploadReturned(1)
    /\ req[1].resp = "parse_error"
    /\ Len(req[1].wb) = 2
    /\ HasBadGoverningLabel(req[1].wb)
    /\ ~HasBadMarker(<<req[1].wb[1]>>)
    /\ req[1].structure # <<>>
    /\ history # <<>>

\* some sheet of the workbook lacks a required column
LacksColumn(wb) == \E s \in 1..Len(wb) : ~(RequiredColSet \subseteq wb[s].columns)

\* C8: an upload of a workbook with a sheet that lacks a required column, at
\* any position, fails with a parse error, and the structure collections and
\* the history entries with their flags stay what they were before it.
C8_MissingColumnLeavesStore ==
    (req[1].kind = "upload" /\ LacksColumn(req[1].wb))
        => /\ StoreUntouched(1)
           /\ req[1].pc = "done" => req[1].resp = "parse_error"

\* C8 witness: the upload has failed on its second sheet, after a first sheet
\* with field rows, while the history holds a current entry
C8_Witness ==
    /\ UploadReturned(1)
    /\ req[1].resp = "parse_error"
    /\ Len(req[1].wb) = 2
    /\ ~LacksColumn(<<req[1].wb[1]>>)
    /\ LacksColumn(<<req[1].wb[2]>>)
    /\ req[1].si = 2
    /\ Len(req[1].structure) = 1
    /\ FieldKeys(req[1].structure[1]) # {}
    /\ Current # {}

\* C9: an upload that failed on a store write leaves the history entries
\* and their is_current flags as they were before it started.
C9_StoreFailureKeepsHistory ==
    (UploadReturned(1) /\ req[1].resp \in {"structure_error", "history_error"})
        => history = req[1].pre_history

\* C10: an upload whose notification failed has returned a failure, its
\* collection holds the whole structure, and its history entry is the
\* current one.
C10_NotifyFailureKeepsTheChange ==
    (UploadReturned(1) /\ req[1].sent = 1 /\ req[1].resp # "ok")
        => /\ req[1].resp = "notify_error"
           /\ Documents(req[1].COLLECTION_NAME) = req[1].structure
           /\ Len(history) = Len(req[1].pre_history) + 1
           /\ Current = {Len(history)}
           /\ history[Len(history)].collection_name = req[1].COLLECTION_NAME

\* C10 witness: the notification of the second upload has failed
C10_Witness ==
    /\ UploadReturned(1)
    /\ req[1].resp = "notify_error"
    /\ req[1].pre_history # <<>>
    /\ req[1].structure # <<>>

\* the request of p is a read of the current structure that has returned
GetReturned(p) == req[p].pc = "done" /\ req[p].kind = "get"

\* the scanner at the start of a sheet (lines 97-100), with the groups
\* emitted so far
ScannerStart(structure) ==
    [SID |-> <<>>, is_first_SID |-> TRUE, SID_Full_Name |-> DefaultSIDFullName,
     last_valid_field_name |-> Blank, structure |-> structure]

\* the scanner after the rows j.. of a sheet
RECURSIVE ScanFrom(_, _, _, _)
ScanFrom(r, rows, j, sheet_name) ==
    IF j > Len(rows) THEN r
    ELSE LET m == AfterMarker(r, rows[j])
         IN  ScanFrom(IF Qualifies(rows[j]) THEN AfterField(m, rows[j], sheet_name)
                      ELSE m,
                      rows, j + 1, sheet_name)

\* the groups emitted for the sheets s.. of a workbook, after structure
RECURSIVE TranscodeFrom(_, _, _)
TranscodeFrom(structure, wb, s) ==
    IF s > Len(wb) THEN structure
    ELSE LET r == ScanFrom(ScannerStart(structure), wb[s].rows, 1,
                           sheets_names_list(wb)[s])
         IN  TranscodeFrom(Append(r.structure, r.SID), wb, s + 1)

\* the group records that transcoding a workbook produces
Transcode(wb) == TranscodeFrom(<<>>, wb, 1)

\* the worker's previous request was an upload that returned the success
\* message, and its read of the current structure has returned
ReadAfterUpload(p) ==
    /\ GetReturned(p)
    /\ req[p].prev.kind = "upload"
    /\ req[p].prev.resp = "ok"

\* a record without its "_id" field
WithoutId(d) == [k \in (DOMAIN d) \ {IdKey} |-> d[k]]

\* C11, as stated: after a successful upload of a workbook, with no other
\* request in between, getCurrentStructure returns the sequence of group
\* records that transcoding that workbook produces, in the same order and
\* with the same fields.
C11_ReadReturnsTranscoding ==
    ReadAfterUpload(1)
        => /\ req[1].resp = "ok"
           /\ req[1].body = Transcode(req[1].prev.wb)

\* C11, amended: after a successful upload of a workbook, with no other
\* request in between, getCurrentStructure returns, in the same order, the
\* group records that transcoding that workbook produces, each with one more
\* field, "_id", that holds the text of the id the store gave the document;
\* no two records hold the same id.
C11_ReadReturnsTranscodingWithIds ==
    ReadAfterUpload(1)
        => LET groups == Transcode(req[1].prev.wb)
               body == req[1].body
           IN  /\ req[1].resp = "ok"
               /\ Len(body) = Len(groups)
               /\ \A i \in 1..Len(body) :
                     /\ IdKey \in DOMAIN body[i]
                     /\ ~IsObjectId(body[i][IdKey])
                     /\ body[i][IdKey].isstr
                     /\ WithoutId(body[i]) = groups[i]
               /\ \A i, k \in 1..Len(body) :
                     body[i][IdKey] = body[k][IdKey] => i = k

\* C11 witness: the read after the second successful upload, of a workbook
\* of two sheets, has returned two group records
C11_Witness ==
    /\ ReadAfterUpload(1)
    /\ req[1].resp = "ok"
    /\ Len(history) = 2
    /\ Len(req[1].prev.wb) = 2
    /\ Len(req[1].body) = 2
    /\ FieldKeys(WithoutId(req[1].body[2])) # {}

\* the scan of sheet s of p's upload has ended and nothing was stored yet
SheetScanned(p, s) ==
    /\ req[p].kind = "upload"
    /\ req[p].pc \in {"sheet", "insert_structure"}
    /\ req[p].si = s + 1

\* the scan of sheet s of p's upload is under way
SheetInScan(p, s) == req[p].kind = "upload" /\ req[p].pc = "row" /\ req[p].si = s

\* the value is a field entry (and no metadata block)
IsFieldEntry(v) == "variable_name" \in DOMAIN v

\* the value is a metadata block
IsMetadataBlock(v) == "full_name" \in DOMAIN v

\* C12: a sheet without marker rows emits no group while it is scanned and
\* one group at its end, and that group holds, under the variable name of
\* every field row of the sheet, a field entry.
C12_NoMarkerSheetIsOneGroup ==
    \A s \in 1..Len(req[1].wb) :
        LET rows == req[1].wb[s].rows
            before == GroupsBefore(req[1].wb, s)
        IN  Markers(rows) = {}
                => /\ SheetInScan(1, s) => Len(req[1].structure) = before
                   /\ SheetScanned(1, s)
                        => /\ Len(req[1].structure) = before + 1
                           /\ \A j \in 1..Len(rows) :
                                 Qualifies(rows[j])
                                    => LET key == variable_name_col(rows[j])
                                           group == req[1].structure[before + 1]
                                       IN  /\ key \in DOMAIN group
                                           /\ IsFieldEntry(group[key])

\* the groups of a scanner: those emitted, then the one being accumulated
GroupsOf(r) == Append(r.structure, r.SID)

\* the scanner of p stands before a row that is no field row
BeforeSkippedRow(p) ==
    /\ req[p].pc = "row"
    /\ req[p].j < Len(req[p].wb[req[p].si].rows)
    /\ ~Qualifies(req[p].wb[req[p].si].rows[req[p].j + 1])

\* C13: the step over a row whose variable-name cell is blank or the header
\* label leaves every group with the entries and the metadata it had (the
\* accumulator is kept, or emitted as it is and followed by an empty one) and
\* leaves the carry-forward field name as it was.
C13_SkippedRowChangesNoGroup ==
    [][ BeforeSkippedRow(1)
          => /\ req'[1].last_valid_field_name = req[1].last_valid_field_name
             /\ \/ GroupsOf(req'[1]) = GroupsOf(req[1])
                \/ GroupsOf(req'[1]) = Append(GroupsOf(req[1]), <<>>) ]_vars

\* C13 witness: the scanner has stepped over a marker row with a blank
\* variable name while its accumulator held the entry of the row above
C13_Witness ==
    /\ req[1].pc = "row"
    /\ req[1].j = 2
    /\ Qualifies(req[1].wb[req[1].si].rows[1])
    /\ ~Qualifies(req[1].wb[req[1].si].rows[2])
    /\ IsMarker(req[1].wb[req[1].si].rows[2])
    /\ FieldKeys(req[1].SID) # {}
    /\ req[1].last_valid_field_name # Blank

\* the history entries without their is_current flags
Entries(h) == [i \in 1..Len(h) |-> [_id |-> h[i]._id, collection_name |-> h[i].collection_name]]

FieldRowTaken(p) ==
    /\ req[p].pc = "row"
    /\ req[p].j >= 1
    /\ Qualifies(req[p].wb[req[p].si].rows[req[p].j])

\* the row the scanner of p has just taken
TakenRow(p) == req[p].wb[req[p].si].rows[req[p].j]

\* the field entry the scanner of p has just written
TakenEntry(p) == req[p].SID[variable_name_col(TakenRow(p))]

\* C15: the field entry written for a field row has the row's gain cell, or
\* the number 1 when that cell is blank, the row's offset cell, or the number
\* 0 when that cell is blank, and for type, count, min, max, concept and unit
\* the row's cell as it is (the empty string for a blank cell).
C15_DefaultsOfAnEntry ==
    FieldRowTaken(1)
        => LET row == TakenRow(1)
               entry == TakenEntry(1)
           IN  /\ entry.gain = IF gain_col(row) = Blank THEN Num(<<"1">>) ELSE gain_col(row)
               /\ entry.offset = IF offset_col(row) = Blank THEN Num(<<"0">>)
                                 ELSE offset_col(row)
               /\ entry.type = type_col(row)
               /\ entry.count = count_col(row)
               /\ entry.min = min_col(row)
               /\ entry.max = max_col(row)
               /\ entry.concept = concept_col(row)
               /\ entry.unit = unit_col(row)

\* C15 witness: an entry was written for a field row whose gain and offset
\* cells, and every cell beside its names, are blank
C15_Witness ==
    /\ FieldRowTaken(1)
    /\ gain_col(TakenRow(1)) = Blank
    /\ offset_col(TakenRow(1)) = Blank
    /\ TakenEntry(1).gain = Num(<<"1">>)
    /\ TakenEntry(1).offset = Num(<<"0">>)
    /\ TakenEntry(1).unit = Blank

\* the flushes that the marker rows among the first j rows of a sheet cause:
\* none by the first marker row, one by every later one
FlushesUpTo(rows, j) ==
    LET k == Cardinality({ m \in Markers(rows) : m <= j })
    IN  IF k = 0 THEN 0 ELSE k - 1

\* the groups emitted so far are what the sheets and the rows scanned so far
\* account for
EmittedSoFar(p) ==
    LET r == req[p]
    IN  /\ r.pc = "row"
            => Len(r.structure)
                 = GroupsBefore(r.wb, r.si) + FlushesUpTo(r.wb[r.si].rows, r.j)
        /\ (r.kind = "upload" /\ r.pc \in {"sheet", "insert_structure"})
            => Len(r.structure) = GroupsBefore(r.wb, r.si)

\* a step of the scan of p only appends to the groups emitted so far
ScanAppends(p) ==
    (req[p].pc \in {"sheet", "row"} /\ req'[p].pc \in {"sheet", "row", "insert_structure"})
        => /\ Len(req'[p].structure) >= Len(req[p].structure)
           /\ SubSeq(req'[p].structure, 1, Len(req[p].structure)) = req[p].structure

\* C16: while a sheet is scanned the emitted groups are those of the earlier
\* sheets, max(1, marker rows) each, plus one for every marker row met but
\* the first; at the end of the sheet one more is emitted, so that the sheet
\* has emitted max(1, marker rows) groups; and groups are only ever appended.
C16_GroupsPerSheet == [](EmittedSoFar(1)) /\ [][ScanAppends(1)]_vars

\* C16 witness: a sheet of two marker rows, the second without a field row
\* below it, has emitted two groups, the second one empty
C16_Witness ==
    /\ Parsed(1)
    /\ Len(req[1].wb) = 1
    /\ Cardinality(Markers(req[1].wb[1].rows)) = 2
    /\ Len(req[1].structure) = 2
    /\ req[1].structure[1] # <<>>
    /\ req[1].structure[2] = <<>>

\* the upload of p has cleared the flags and not yet inserted its entry
BetweenClearAndInsert(p) == req[p].kind = "upload" /\ req[p].pc = "insert_history"

\* some entry of the history h is current
HasCurrent(h) == \E i \in 1..Len(h) : h[i].is_current

\* C17: a read of the current structure whose look-up of the current entry
\* runs while the upload of another worker stands between its clear of the
\* flags and its insert of the new entry finds no current entry and answers
\* 404, whatever was current before that upload.
C17_ReadBetweenTheStepsIs404 ==
    [][ (req[2].pc = "get_find" /\ req'[2].pc # "get_find" /\ BetweenClearAndInsert(1))
          => (req'[2].pc = "done" /\ req'[2].resp = "404") ]_vars

\* C17 witness: a read that started and returned between the two steps of an
\* upload was answered 404, although an entry was current when the upload
\* started
C17_Witness ==
    /\ GetReturned(2)
    /\ req[2].resp = "404"
    /\ BetweenClearAndInsert(1)
    /\ HasCurrent(req[1].pre_history)
    /\ req[2].pre_history = history
    /\ ~HasCurrent(history)

\* the group holds a field entry under some key
HoldsFieldEntry(group) == \E k \in DOMAIN group : IsFieldEntry(group[k])

\* the label of the marker row that opens the i-th group of a sheet, "SID1"
\* in a sheet without marker rows
OpeningLabel(rows, i) ==
    IF Markers(rows) = {} THEN DefaultSIDFullName
    ELSE field_name_col(rows[NthMarker(rows, i)]).s

\* C18: every emitted group that holds a field entry has, under "metadata", a
\* metadata block whose full_name and SID are the label of the marker row
\* that opened the group ("SID1" when the sheet has no marker row) and whose
\* SIDNumber is the integer in that label.
C18_MetadataNamesTheOpeningMarker ==
    Parsed(1) =>
        \A s \in 1..Len(req[1].wb) :
            LET rows == req[1].wb[s].rows
            IN  \A i \in 1..GroupCount(rows) :
                    LET group == req[1].structure[GroupsBefore(req[1].wb, s) + i]
                        label == OpeningLabel(rows, i)
                    IN  HoldsFieldEntry(group)
                            => /\ MetadataKey \in DOMAIN group
                               /\ IsMetadataBlock(group[MetadataKey])
                               /\ group[MetadataKey].full_name = label
                               /\ group[MetadataKey].SID = label
                               /\ IsIntLiteral(SIDNumberText(label))
                               /\ group[MetadataKey].SIDNumber
                                    = IntValue(SIDNumberText(label))

\* the request of p is at its notification and its history write is in the
\* store: the entry of the upload's collection, or the flag of the entries
\* with the id of the change
HistoryWritten(p) ==
    /\ req[p].pc = "notify"
        => \E i \in 1..Len(history) :
              history[i].collection_name = req[p].COLLECTION_NAME
    /\ req[p].pc = "change_notify"
        => /\ req[p].structure_id.wellformed
           /\ history = SetCurrent(ClearAll(req[p].pre_history), req[p].structure_id.oid)

\* a request that has returned a failure of its parse, of its structure
\* insert or of its history write has sent no notification, and no request
\* has sent more than one
SentAtMostOnce(p) ==
    /\ req[p].sent \in {0, 1}
    /\ req[p].resp \in {"400", "parse_error", "structure_error", "history_error"}
        => req[p].sent = 0
    /\ req[p].sent = 1 => req[p].pc = "done"

\* the notification is sent by the step that leaves the position after the
\* history write, and by no other step
SentOnlyAfterWrite(p) ==
    req'[p].sent # req[p].sent
        => \/ req'[p].sent = 0 /\ req[p].pc = "done"
           \/ /\ req[p].pc \in {"notify", "change_notify"}
              /\ req[p].sent = 0
              /\ req'[p].sent = 1

\* C19: a request sends the notification at most once, by the step that
\* follows its completed history write, and a request whose parse, structure
\* insert or history write failed has sent none.
C19_NotifiedOnceAfterTheWrite ==
    [](HistoryWritten(1) /\ SentAtMostOnce(1)) /\ [][SentOnlyAfterWrite(1)]_vars

\* C19 witness: an upload whose parse, structure insert and history write
\* succeeded has sent its one notification, after a request of which a
\* store write failed
C19_Witness ==
    /\ UploadReturned(1)
    /\ req[1].sent = 1
    /\ faults = 1
    /\ \E i \in 1..Len(history) : history[i].collection_name = req[1].COLLECTION_NAME

\* the sheet to which the n-th emitted group of a workbook belongs
SheetOfGroup(wb, n) ==
    CHOOSE s \in 1..Len(wb) : GroupsBefore(wb, s) < n /\ n <= GroupsBefore(wb, s + 1)

\* the field-name cells of a sheet, and the empty string
FieldNamesOf(rows) == { field_name_col(rows[j]) : j \in 1..Len(rows) } \cup {Blank}

\* the group holds nothing but what sheet s of the workbook accounts for:
\* field entries of field rows of that sheet, with a field name of that
\* sheet, and a metadata block with the name of that sheet
GroupOfSheet(group, wb, s) ==
    \A k \in DOMAIN group :
        IF IsMetadataBlock(group[k])
        THEN k = MetadataKey /\ group[k].info = sheets_names_list(wb)[s]
        ELSE /\ IsFieldEntry(group[k])
             /\ group[k].field_name \in FieldNamesOf(wb[s].rows)
             /\ \E j \in 1..Len(wb[s].rows) :
                   /\ Qualifies(wb[s].rows[j])
                   /\ variable_name_col(wb[s].rows[j]) = k
                   /\ group[k] = sid_info_obj(wb[s].rows[j], group[k].field_name)

\* C20: every group emitted by the scan and the group being accumulated hold
\* only entries of rows of one sheet, their own, with that sheet's name as
\* metadata info, and at the first row of every sheet the accumulator is
\* empty, the carry-forward field name is "" and the label is "SID1".
C20_NoLeakAcrossSheets ==
    (req[1].kind = "upload" /\ req[1].pc \in {"sheet", "row", "insert_structure"})
        => /\ \A n \in 1..Len(req[1].structure) :
                 GroupOfSheet(req[1].structure[n], req[1].wb,
                              SheetOfGroup(req[1].wb, n))
           /\ req[1].pc = "row"
                => /\ GroupOfSheet(req[1].SID, req[1].wb, req[1].si)
                   /\ req[1].j = 0
                        => /\ req[1].SID = <<>>
                           /\ req[1].is_first_SID
                           /\ req[1].last_valid_field_name = Blank
                           /\ req[1].SID_Full_Name = DefaultSIDFullName

\* C20 witness: a workbook of two sheets with a field row each was scanned,
\* and each of the two groups names its own sheet
C20_Witness ==
    /\ Parsed(1)
    /\ Len(req[1].wb) = 2
    /\ Len(req[1].structure) = 2
    /\ \A n \in 1..2 :
          /\ FieldKeys(req[1].structure[n]) # {}
          /\ MetadataKey \in DOMAIN req[1].structure[n]
          /\ IsMetadataBlock(req[1].structure[n][MetadataKey])
          /\ req[1].structure[n][MetadataKey].info = sheets_names_list(req[1].wb)[n]

====
